---- MODULE Spec2Model ----
(***************************************************************************)
(* Action-group playback of hiwonder/ActionGroupControl.py: runAction      *)
(* streams the frames of one action group to the servo controller, and     *)
(* runActionGroup repeats an action, stitching the start and end           *)
(* transitions of the walking gaits around it.  stopAction and             *)
(* stopActionGroup are flags set from any thread.                           *)
(***************************************************************************)
EXTENDS Integers, Sequences, FiniteSets, TLC

\* ------------------------------------------------------------------ bounds
MaxFrames == 2      \* rows of every action-group file
NServos == 2        \* position columns of every row
MaxTimes == 3       \* largest repetition count a caller passes
MaxPlays == 3       \* plays of a times=0 call the model follows

\* ------------------------------------------------------------ environment
Threads == {"t1", "t2"}
None == "None"

ForwardGroup == {"go_forward", "go_forward_fast", "go_forward_slow"}
BackwardGroup == {"back", "back_fast"}
StartNames == {"go_forward_start", "go_forward_start_fast", "back_start"}
EndNames == {"go_forward_end", "back_end"}

\* The names for which <path><name>.d6a exists; any other name is missing.
Files == ForwardGroup \cup BackwardGroup \cup StartNames \cup EndNames
            \cup {"wave", "stand_slow"}
\* The names callers pass: the gaits, a gesture, and a name with no file.
ActNames == ForwardGroup \cup BackwardGroup \cup {"wave", "nope"}

\* lock_servos: the default '' or a dict keyed by str(servo id), as a set of
\* <<key, position>> pairs ('' has no key: no non-empty string is in '').
NoLock == {}
LockChoices == {NoLock, {<<"2", 900>>}}

\* One row of the ActionGroup table: (index, duration, pos_1, .., pos_k).
Row(name, j) ==
    <<j, 100 * j>> \o [s \in 1..NServos |-> 10 * j + s + (IF name \in BackwardGroup THEN 5 ELSE 0)]

Rows(name) == [j \in 1..MaxFrames |-> Row(name, j)]

VARIABLES
    runningAction,      \* module globals
    stop_action,
    stop_action_group,
    __end,
    __start,
    current_status,
    grp,                \* per thread: the frame of runActionGroup
    act,                \* per thread: the frame of runAction
    api,                \* per thread: the entry point of the current/last call
    result,             \* per thread: what that call gave its caller
    trace,              \* per thread: action groups that began streaming in the call
    sent,               \* per thread: set_bus_servo_pulse calls of the last runAction
    slept,              \* per thread: milliseconds slept by the last runAction
    outcome,            \* per thread: the exit the last runAction took
    sigAct,             \* per thread: stopAction was pending or signalled in the call
    sigGrp,             \* per thread: when stopActionGroup was signalled in the call
    failed,             \* a runAction has raised while streaming
    family,             \* the family whose start transition was last called for
    owed,               \* runActionGroup has called for a start transition
                        \* since it last called for an end transition
    rc,                 \* the RobotController method the main thread is in
    _action_thread      \* RobotController._action_thread

vars == <<runningAction, stop_action, stop_action_group, __end, __start,
          current_status, grp, act, api, result, trace, sent, slept, outcome,
          sigAct, sigGrp, failed, family, owed, rc,
          _action_thread>>

globals == <<runningAction, stop_action, stop_action_group, __end, __start, current_status>>
gait == <<__end, __start, current_status>>
rcvars == <<rc, _action_thread>>

\* The main thread is in no RobotController method. A method's record: its
\* name, its position, its reply, the head commands it sent, and the action
\* groups that the runActionGroup it called streamed to their last frame.
NoRc == [op |-> "none", pc |-> "none", reply |-> "none", head |-> 0, played |-> {}]

\* The frame of runActionGroup: its parameters and locals, its position, and
\* records of the call: whether it began in Idle, whether a start transition
\* was owed when it began (start0), whether an end transition was
\* pending when it began (end0) and for which family (fam0), the passes of its loop when times is not 0
\* (iters), the break it left by, whether
\* stopActionGroup was signalled while a sequence of the current iteration was
\* streaming (fresh), and, for the first time the call read stop_action_group
\* as true, how many sequences it had played (seen_at, -1 before) and whether
\* the signal was fresh (seen_fresh).
NoGrp == [pc |-> "idle", actName |-> None, times |-> 0, temp |-> 0,
          with_stand |-> FALSE, lock_servos |-> NoLock, from_idle |-> FALSE,
          start0 |-> FALSE, end0 |-> FALSE, fam0 |-> "", stop0 |-> FALSE,
          iters |-> 0,
          left |-> "none", fresh |-> FALSE, seen_at |-> -1, seen_fresh |-> FALSE]
\* The frame of runAction: its parameters, the rows fetched so far, the current
\* row, where it returns to, whether stop_action was set before it tested the
\* flag for the first time, and the number of rows it had fetched when
\* stop_action was set (-1 while it has not been).
NoAct == [pc |-> "none", actNum |-> None, lock_servos |-> NoLock, n |-> 0,
          row |-> <<>>, ret |-> "none", early |-> FALSE, cut |-> -1]

Init ==
    /\ runningAction = FALSE
    /\ stop_action = FALSE
    /\ stop_action_group = FALSE
    /\ __end = FALSE
    /\ __start = TRUE
    /\ current_status = ""
    /\ grp = [t \in Threads |-> NoGrp]
    /\ act = [t \in Threads |-> NoAct]
    /\ api = [t \in Threads |-> "none"]
    /\ result = [t \in Threads |-> "none"]
    /\ trace = [t \in Threads |-> <<>>]
    /\ sent = [t \in Threads |-> <<>>]
    /\ slept = [t \in Threads |-> 0]
    /\ outcome = [t \in Threads |-> "none"]
    /\ sigAct = [t \in Threads |-> FALSE]
    /\ sigGrp = [t \in Threads |-> "none"]
    /\ failed = FALSE
    /\ family = ""
    /\ owed = FALSE
    /\ rc = NoRc
    /\ _action_thread = None

\* A thread is inside an API call.
Busy(t) == result[t] = "pending"
InAct(t) == act[t].pc # "none"

\* ------------------------------------------------------------- stop flags
\* The start transition of t's running call has been streamed to its end.
StartPlayed(t) ==
    /\ api[t] = "runActionGroup"
    /\ Busy(t)
    /\ \E i \in 1..Len(trace[t]) :
          /\ trace[t][i] \in StartNames
          /\ (i < Len(trace[t]) \/ ~InAct(t))

stopAction ==
    /\ stop_action = FALSE
    /\ stop_action' = TRUE
    /\ sigAct' = [t \in Threads |-> sigAct[t] \/ Busy(t)]
    /\ act' = [t \in Threads |->
                 IF act[t].pc \in {"a142", "a144"} \/ (act[t].pc = "a149" /\ act[t].n = 0)
                   THEN [act[t] EXCEPT !.early = TRUE, !.cut = 0]
                   ELSE IF act[t].pc \in {"a149", "a155", "a161"}
                   THEN [act[t] EXCEPT !.cut = act[t].n]
                   ELSE act[t]]
    /\ UNCHANGED <<runningAction, stop_action_group, gait, grp, api, result,
                   trace, sent, slept, outcome, sigGrp, failed, family>>
    /\ UNCHANGED rcvars
    /\ UNCHANGED owed

\* stop_action_group = True, and what the running calls record of it.
GroupStopSet ==
    /\ stop_action_group' = TRUE
    /\ sigGrp' = [t \in Threads |->
                    IF ~Busy(t) \/ sigGrp[t] # "none" THEN sigGrp[t]
                    ELSE IF StartPlayed(t) THEN "late" ELSE "early"]
    /\ grp' = [t \in Threads |->
                 IF api[t] = "runActionGroup" /\ Busy(t) /\ InAct(t)
                   THEN [grp[t] EXCEPT !.fresh = TRUE]
                   ELSE grp[t]]

stopActionGroup ==
    /\ stop_action_group = FALSE
    /\ GroupStopSet
    /\ UNCHANGED <<runningAction, stop_action, gait, act, api, result,
                   trace, sent, slept, outcome, sigAct, failed, family>>
    /\ UNCHANGED rcvars
    /\ UNCHANGED owed

\* ---------------------------------------------------------------- runAction
\* str(i + 1) in lock_servos, and lock_servos[str(i + 1)]
Locked(lock, id) == \E p \in lock : p[1] = ToString(id)
LockPos(lock, id) == (CHOOSE p \in lock : p[1] = ToString(id))[2]

\* Faulty variant of Position: the override is looked up but the authored
\* position is sent.
PositionAuthored(row, id, lock) ==
    IF Locked(lock, id) THEN row[2 + id] ELSE row[2 + id]

\* The position runAction sends for servo id of a row.
Position(row, id, lock) ==
    IF Locked(lock, id) THEN LockPos(lock, id) ELSE row[2 + id]

\* Faulty variant of FrameCommands: the servos of a row are commanded from the
\* last to the first.
FrameCommandsDescending(row, lock, k) ==
    [i \in 1..k |-> [id |-> k + 1 - i, pos |-> Position(row, k + 1 - i, lock),
                     dur |-> row[2]]]

\* for i in range(0, len(act) - 2): set_bus_servo_pulse(i + 1, position, act[1]),
\* the first k servos of the row.
RECURSIVE FrameCommands(_, _, _)
FrameCommands(row, lock, k) ==
    IF k = 0 THEN <<>>
    ELSE FrameCommands(row, lock, k - 1)
            \o <<[id |-> k, pos |-> Position(row, k, lock), dur |-> row[2]]>>

\* Faulty variant of StopObserved: the flag is tested only once a row has been
\* streamed.
StopObservedAfterFirstRow(t) == stop_action = TRUE /\ act[t].n > 0

\* Faulty variant of StopObserved: the flag is tested before the first row only.
StopObservedBeforeLoop(t) == stop_action = TRUE /\ act[t].n = 0

\* The test of stop_action at the top of every pass of the streaming loop.
StopObserved(t) == stop_action = TRUE

\* The frame pushed by a call of runAction(name, lock_servos, path).
ActFrame(name, lock, ret) ==
    [pc |-> "a142", actNum |-> name, lock_servos |-> lock, n |-> 0,
     row |-> <<>>, ret |-> ret, early |-> stop_action,
     cut |-> IF stop_action THEN 0 ELSE -1]

\* runAction returns: to its caller in runActionGroup, or to the API caller.
ActReturn(t, how) ==
    /\ act' = [act EXCEPT ![t].pc = "none"]
    /\ outcome' = [outcome EXCEPT ![t] = how]
    /\ IF act[t].ret = "direct"
         THEN /\ result' = [result EXCEPT ![t] = None]
              /\ grp' = grp
         ELSE /\ grp' = [grp EXCEPT ![t].pc = act[t].ret]
              /\ result' = result

\* Faulty variant of A142: the request that finds a playback active releases
\* runningAction on its way out.
A142BusyReleases(t) ==
    /\ act[t].pc = "a142"
    /\ IF act[t].actNum \notin Files
         THEN /\ runningAction' = FALSE
              /\ ActReturn(t, "NotFound")
         ELSE IF runningAction = FALSE
         THEN /\ act' = [act EXCEPT ![t].pc = "a144"]
              /\ UNCHANGED <<runningAction, outcome, result, grp>>
         ELSE /\ ActReturn(t, "Busy")
              /\ runningAction' = FALSE
    /\ UNCHANGED <<stop_action, stop_action_group, gait, api, trace, sent, slept,
                   sigAct, sigGrp, failed, family>>
    /\ UNCHANGED rcvars
    /\ UNCHANGED owed

\* os.path.exists(actNum), then the test of runningAction.
A142(t) ==
    /\ act[t].pc = "a142"
    /\ IF act[t].actNum \notin Files
         THEN /\ runningAction' = FALSE
              /\ ActReturn(t, "NotFound")
         ELSE IF runningAction = FALSE
         THEN /\ act' = [act EXCEPT ![t].pc = "a144"]
              /\ UNCHANGED <<runningAction, outcome, result, grp>>
         ELSE /\ ActReturn(t, "Busy")
              /\ UNCHANGED runningAction
    /\ UNCHANGED <<stop_action, stop_action_group, gait, api, trace, sent, slept,
                   sigAct, sigGrp, failed, family>>
    /\ UNCHANGED rcvars
    /\ UNCHANGED owed

\* runningAction = True; sql.connect, cursor, execute
A144(t) ==
    /\ act[t].pc = "a144"
    /\ runningAction' = TRUE
    /\ act' = [act EXCEPT ![t].pc = "a149"]
    /\ trace' = [trace EXCEPT ![t] = Append(@, act[t].actNum)]
    /\ UNCHANGED <<stop_action, stop_action_group, gait, grp, api, result, sent,
                   slept, outcome, sigAct, sigGrp, failed, family>>
    /\ UNCHANGED rcvars
    /\ UNCHANGED owed

\* act = cu.fetchone(), then the stop test, then the end-of-table test.
A149(t) ==
    /\ act[t].pc = "a149"
    /\ LET rows == Rows(act[t].actNum)
           more == act[t].n < Len(rows)
           row == IF more THEN rows[act[t].n + 1] ELSE <<>>
           n == IF more THEN act[t].n + 1 ELSE act[t].n
       IN  IF StopObserved(t)
             THEN /\ stop_action' = FALSE
                  /\ act' = [act EXCEPT ![t].pc = "a164", ![t].row = row, ![t].n = n]
                  /\ outcome' = [outcome EXCEPT ![t] = "Cancelled"]
             ELSE IF more
             THEN /\ act' = [act EXCEPT ![t].pc = "a155", ![t].row = row, ![t].n = n]
                  /\ UNCHANGED <<stop_action, outcome>>
             ELSE /\ act' = [act EXCEPT ![t].pc = "a164", ![t].row = row, ![t].n = n]
                  /\ outcome' = [outcome EXCEPT ![t] = "Completed"]
                  /\ UNCHANGED stop_action
    /\ UNCHANGED <<runningAction, stop_action_group, gait, grp, api, result, trace,
                   sent, slept, sigAct, sigGrp, failed, family>>
    /\ UNCHANGED rcvars
    /\ UNCHANGED owed

\* The for loop over the servos of the fetched row.
A155(t) ==
    /\ act[t].pc = "a155"
    /\ sent' = [sent EXCEPT ![t] =
                  @ \o FrameCommands(act[t].row, act[t].lock_servos, Len(act[t].row) - 2)]
    /\ act' = [act EXCEPT ![t].pc = "a161"]
    /\ UNCHANGED <<globals, grp, api, result, trace, slept, outcome, sigAct,
                   sigGrp, failed, family>>
    /\ UNCHANGED rcvars
    /\ UNCHANGED owed

\* Faulty variant of SleepMs: the pause is taken from the row's index column.
SleepMsOfIndex(row) == row[1]

\* float(act[1]) / 1000.0, in milliseconds: the row's duration column.
SleepMs(row) == row[2]

\* time.sleep(float(act[1]) / 1000.0)
A161(t) ==
    /\ act[t].pc = "a161"
    /\ slept' = [slept EXCEPT ![t] = @ + SleepMs(act[t].row)]
    /\ act' = [act EXCEPT ![t].pc = "a149"]
    /\ UNCHANGED <<globals, grp, api, result, trace, sent, outcome, sigAct,
                   sigGrp, failed, family>>
    /\ UNCHANGED rcvars
    /\ UNCHANGED owed

\* runningAction = False; cu.close(); ag.close(); return
A164(t) ==
    /\ act[t].pc = "a164"
    /\ runningAction' = FALSE
    /\ ActReturn(t, outcome[t])
    /\ UNCHANGED <<stop_action, stop_action_group, gait, api, trace, sent, slept,
                   sigAct, sigGrp, failed, family>>
    /\ UNCHANGED rcvars
    /\ UNCHANGED owed

\* Faulty variant of Raise: the exception is not caught by runActionGroup.
RaiseEscapes(t) ==
    /\ act[t].pc \in {"a149", "a155"}
    /\ \E i \in 0..(NServos - 1) :
          /\ act[t].pc # "a155" => i = 0
          /\ sent' = [sent EXCEPT ![t] =
                        @ \o FrameCommands(act[t].row, act[t].lock_servos,
                                           IF act[t].pc = "a155" THEN i ELSE 0)]
    /\ act' = [act EXCEPT ![t].pc = "none"]
    /\ outcome' = [outcome EXCEPT ![t] = "Raised"]
    /\ failed' = TRUE
    /\ result' = [result EXCEPT ![t] = "raised"]
    /\ grp' = [grp EXCEPT ![t].pc = "idle"]
    /\ UNCHANGED <<globals, api, trace, slept, sigAct, sigGrp, family>>
    /\ UNCHANGED rcvars
    /\ UNCHANGED owed

\* An exception leaves runAction: from sql.connect, execute or fetchone (at
\* a149, runningAction already set), or from set_bus_servo_pulse after i servos
\* of the row were commanded.
\* runActionGroup catches it (except BaseException) and loops.
Raise(t) ==
    /\ act[t].pc \in {"a149", "a155"}
    /\ \E i \in 0..(NServos - 1) :
          /\ act[t].pc # "a155" => i = 0
          /\ sent' = [sent EXCEPT ![t] =
                        @ \o FrameCommands(act[t].row, act[t].lock_servos,
                                           IF act[t].pc = "a155" THEN i ELSE 0)]
    /\ act' = [act EXCEPT ![t].pc = "none"]
    /\ outcome' = [outcome EXCEPT ![t] = "Raised"]
    /\ failed' = TRUE
    /\ IF act[t].ret = "direct"
         THEN /\ result' = [result EXCEPT ![t] = "raised"]
              /\ grp' = grp
         ELSE /\ grp' = [grp EXCEPT ![t].pc = "top"]
              /\ result' = result
    /\ UNCHANGED <<globals, api, trace, slept, sigAct, sigGrp, family>>
    /\ UNCHANGED rcvars
    /\ UNCHANGED owed

\* What the finished call of t recorded is dropped.
Dropped(t) ==
    /\ grp' = [grp EXCEPT ![t] = NoGrp]
    /\ act' = [act EXCEPT ![t] = NoAct]
    /\ api' = [api EXCEPT ![t] = "none"]
    /\ result' = [result EXCEPT ![t] = "none"]
    /\ trace' = [trace EXCEPT ![t] = <<>>]
    /\ sent' = [sent EXCEPT ![t] = <<>>]
    /\ slept' = [slept EXCEPT ![t] = 0]
    /\ outcome' = [outcome EXCEPT ![t] = "none"]
    /\ sigAct' = [sigAct EXCEPT ![t] = FALSE]
    /\ sigGrp' = [sigGrp EXCEPT ![t] = "none"]

\* The caller has the call's result and is ready for its next call.
Returned(t) ==
    /\ result[t] \in {None, "raised"}
    /\ Dropped(t)
    /\ UNCHANGED <<globals, failed, family>>
    /\ UNCHANGED rcvars
    /\ UNCHANGED owed

\* A caller invokes runAction(name, lock_servos) directly.
CallRunAction(t) ==
    /\ result[t] = "none"
    /\ \E name \in ActNames, lock \in LockChoices :
          act' = [act EXCEPT ![t] = ActFrame(name, lock, "direct")]
    /\ api' = [api EXCEPT ![t] = "runAction"]
    /\ result' = [result EXCEPT ![t] = "pending"]
    /\ sigAct' = [sigAct EXCEPT ![t] = stop_action]
    /\ sigGrp' = [sigGrp EXCEPT ![t] = IF stop_action_group THEN "early" ELSE "none"]
    /\ UNCHANGED <<globals, grp, trace, sent, slept, outcome, failed, family>>
    /\ UNCHANGED rcvars
    /\ UNCHANGED owed

\* A caller invokes runAction('wave'): a playback of a gesture that has a file.
CallStream(t) ==
    /\ result[t] = "none"
    /\ act' = [act EXCEPT ![t] = ActFrame("wave", NoLock, "direct")]
    /\ api' = [api EXCEPT ![t] = "runAction"]
    /\ result' = [result EXCEPT ![t] = "pending"]
    /\ sigAct' = [sigAct EXCEPT ![t] = stop_action]
    /\ sigGrp' = [sigGrp EXCEPT ![t] = IF stop_action_group THEN "early" ELSE "none"]
    /\ UNCHANGED <<globals, grp, trace, sent, slept, outcome, failed, family>>
    /\ UNCHANGED rcvars
    /\ UNCHANGED owed

\* ----------------------------------------------------------- runActionGroup
Locomotion == ForwardGroup \cup BackwardGroup

\* Faulty variant of StopBranch: either stop flag opens the stop branch.
StopBranchAnyStop(actName) ==
    actName \notin Locomotion \/ stop_action_group \/ stop_action

\* Faulty variant of StopBranch: the group stop is not part of the test.
StopBranchNameOnly(actName) == actName \notin Locomotion

\* The test that opens the loop body: not one of the five gaits, or a group stop.
StopBranch(actName) == actName \notin Locomotion \/ stop_action_group

\* Faulty variant of EndOwed: the stop branch tests the wrong flag.
EndOwedByStart == __start = TRUE

\* An end transition is owed (the test of __end in the stop branch).
EndOwed == __end = TRUE

\* Faulty variant of StatusEnd: the forward end transition whatever the family.
StatusEndForward == "go_forward_end"

\* The end transition the stop branch plays, chosen by current_status.
StatusEnd == IF current_status = "go" THEN "go_forward_end" ELSE "back_end"

\* The end transition the exhausted gait plays with with_stand, chosen by name.
StandEnd(actName) == IF actName \in ForwardGroup THEN "go_forward_end" ELSE "back_end"

\* Faulty variant of StartOwed: every pass of the gait branch starts the gait.
StartOwedAlways == TRUE

\* A start transition is owed (the test of __start in the gait branch).
StartOwed == __start = TRUE

\* Faulty variant of StartOf: go_forward_fast gets the plain forward start.
StartOfPlain(actName) ==
    IF actName \in ForwardGroup THEN "go_forward_start" ELSE "back_start"

\* The start transition of a gait.
StartOf(actName) ==
    IF actName \in {"go_forward", "go_forward_slow"} THEN "go_forward_start"
    ELSE IF actName = "go_forward_fast" THEN "go_forward_start_fast"
    ELSE "back_start"

\* runActionGroup calls runAction(name, lock_servos, path) and resumes at ret.
GrpCall(t, name, ret) ==
    /\ act' = [act EXCEPT ![t] = ActFrame(name, grp[t].lock_servos, ret)]
    /\ sent' = [sent EXCEPT ![t] = <<>>]
    /\ slept' = [slept EXCEPT ![t] = 0]
    /\ outcome' = [outcome EXCEPT ![t] = "none"]
    /\ grp' = grp

\* break at the given line: runActionGroup returns None.
GrpBreak(t, line) ==
    /\ grp' = [grp EXCEPT ![t].pc = "idle", ![t].left = line]
    /\ result' = [result EXCEPT ![t] = None]

\* Faulty variant of Exhausted: the loop stops one repetition early.
ExhaustedAtZero(times) == times <= 0

\* if times < 0: the repetitions are used up.
Exhausted(times) == times < 0

\* Faulty variant of NextTimes: the counter is never decremented.
NextTimesKept(temp, times) == times

\* Faulty variant of NextTimes: the counter is decremented for times=0 too.
NextTimesAlways(temp, times) == times - 1

\* if temp != 0: times -= 1
NextTimes(temp, times) == IF temp # 0 THEN times - 1 ELSE times

\* The frame of t once it has read stop_action_group as true.
Observe(t) ==
    [grp[t] EXCEPT !.seen_at = IF @ = -1 THEN Len(trace[t]) ELSE @,
                   !.seen_fresh = IF grp[t].seen_at = -1 THEN grp[t].fresh ELSE @]

\* while True: if temp != 0: times -= 1; then the test of the stop branch
\* (the flag is read only when the name is one of the five gaits).
GTop(t) ==
    /\ grp[t].pc = "top"
    /\ ~InAct(t)
    /\ grp[t].temp # 0 \/ Len(trace[t]) < MaxPlays \/ stop_action_group
    /\ LET g == [grp[t] EXCEPT !.fresh = FALSE]
           h == IF grp[t].actName \in Locomotion /\ stop_action_group
                  THEN [Observe(t) EXCEPT !.fresh = FALSE, !.seen_fresh = FALSE]
                  ELSE g
       IN  grp' = [grp EXCEPT
                     ![t] = [h EXCEPT
                               !.times = NextTimes(grp[t].temp, grp[t].times),
                               !.iters = IF grp[t].temp # 0 THEN @ + 1 ELSE @,
                               !.pc = IF StopBranch(grp[t].actName) THEN "A72" ELSE "B93"]]
    /\ UNCHANGED <<globals, act, api, result, trace, sent, slept, outcome,
                   sigAct, sigGrp, failed, family>>
    /\ UNCHANGED rcvars
    /\ UNCHANGED owed

\* Faulty variant of GA72: the end transition is played and stays pending.
GA72KeepsEnd(t) ==
    /\ grp[t].pc = "A72"
    /\ ~InAct(t)
    /\ IF EndOwed
         THEN GrpCall(t, StatusEnd, "A79")
         ELSE /\ grp' = [grp EXCEPT ![t].pc = "A79"]
              /\ UNCHANGED <<act, sent, slept, outcome>>
    /\ UNCHANGED <<runningAction, stop_action, stop_action_group, __start, __end,
                   current_status, api, result, trace, sigAct, sigGrp, failed, family>>
    /\ UNCHANGED rcvars
    /\ owed' = IF EndOwed THEN FALSE ELSE owed

\* Stop branch: if __end: __end = False; play the end transition.
GA72(t) ==
    /\ grp[t].pc = "A72"
    /\ ~InAct(t)
    /\ IF EndOwed
         THEN /\ __end' = FALSE
              /\ GrpCall(t, StatusEnd, "A79")
         ELSE /\ grp' = [grp EXCEPT ![t].pc = "A79"]
              /\ UNCHANGED <<__end, act, sent, slept, outcome>>
    /\ UNCHANGED <<runningAction, stop_action, stop_action_group, __start,
                   current_status, api, result, trace, sigAct, sigGrp, failed, family>>
    /\ UNCHANGED rcvars
    /\ owed' = IF EndOwed THEN FALSE ELSE owed

\* Faulty variant of GroupStopSeen: the stop branch never tests the flag.
GroupStopSeenNever == FALSE

\* if stop_action_group: (line 79)
GroupStopSeen == stop_action_group = TRUE

\* Stop branch, after the end transition: leave on a group stop; else
\* __start = True, and play the discrete action unless times < 0.
GA79(t) ==
    /\ grp[t].pc = "A79"
    /\ ~InAct(t)
    /\ IF GroupStopSeen
         THEN /\ __end' = FALSE
              /\ __start' = TRUE
              /\ stop_action_group' = FALSE
              /\ grp' = [grp EXCEPT ![t] = [Observe(t) EXCEPT !.pc = "idle", !.left = "84"]]
              /\ result' = [result EXCEPT ![t] = None]
              /\ UNCHANGED <<act, sent, slept, outcome>>
         ELSE IF Exhausted(grp[t].times)
         THEN /\ __start' = TRUE
              /\ grp' = [grp EXCEPT ![t].pc = "A87"]
              /\ UNCHANGED <<__end, stop_action_group, result, act, sent, slept, outcome>>
         ELSE /\ grp[t].temp # 0 \/ Len(trace[t]) < MaxPlays
              /\ __start' = TRUE
              /\ GrpCall(t, grp[t].actName, "top")
              /\ UNCHANGED <<__end, stop_action_group, result>>
    /\ UNCHANGED <<runningAction, stop_action, current_status, api, trace,
                   sigAct, sigGrp, failed, family>>
    /\ UNCHANGED rcvars
    /\ UNCHANGED owed

\* Faulty variant of GA87: the exhausted discrete call leaves stop_action_group
\* as it finds it.
GA87KeepsStop(t) ==
    /\ grp[t].pc = "A87"
    /\ ~InAct(t)
    /\ __end' = FALSE
    /\ __start' = TRUE
    /\ GrpBreak(t, "90")
    /\ UNCHANGED <<runningAction, stop_action, stop_action_group, current_status,
                   act, api, trace, sent, slept, outcome, sigAct, sigGrp, failed,
                   family>>
    /\ UNCHANGED rcvars
    /\ UNCHANGED owed

\* Stop branch with times < 0: reset the flags and break.
GA87(t) ==
    /\ grp[t].pc = "A87"
    /\ ~InAct(t)
    /\ __end' = FALSE
    /\ __start' = TRUE
    /\ stop_action_group' = FALSE
    /\ GrpBreak(t, "90")
    /\ UNCHANGED <<runningAction, stop_action, current_status, act, api, trace,
                   sent, slept, outcome, sigAct, sigGrp, failed, family>>
    /\ UNCHANGED rcvars
    /\ UNCHANGED owed

\* Gait branch: the exhausted loop, the start transition, or the cycle.
GB93(t) ==
    /\ grp[t].pc = "B93"
    /\ ~InAct(t)
    /\ IF Exhausted(grp[t].times)
         THEN /\ IF grp[t].with_stand
                   THEN /\ GrpCall(t, StandEnd(grp[t].actName), "break")
                        /\ UNCHANGED result
                   ELSE /\ GrpBreak(t, "100")
                        /\ UNCHANGED <<act, sent, slept, outcome>>
              /\ UNCHANGED <<__start, __end, family>>
         ELSE IF StartOwed
         THEN /\ __start' = FALSE
              /\ __end' = TRUE
              /\ family' = IF grp[t].actName \in ForwardGroup THEN "forward" ELSE "backward"
              /\ GrpCall(t, StartOf(grp[t].actName),
                         IF grp[t].actName \in ForwardGroup THEN "B107" ELSE "B113")
              /\ UNCHANGED result
         ELSE /\ GrpCall(t, grp[t].actName, "top")
              /\ UNCHANGED <<__start, __end, result, family>>
    /\ owed' = IF Exhausted(grp[t].times)
                 THEN (IF grp[t].with_stand THEN FALSE ELSE owed)
                 ELSE (IF StartOwed THEN TRUE ELSE owed)
    /\ UNCHANGED <<runningAction, stop_action, stop_action_group, current_status,
                   api, trace, sigAct, sigGrp, failed>>
    /\ UNCHANGED rcvars

\* current_status = 'go' after the forward start transition.
GB107(t) ==
    /\ grp[t].pc = "B107"
    /\ ~InAct(t)
    /\ current_status' = "go"
    /\ grp' = [grp EXCEPT ![t].pc = "top"]
    /\ UNCHANGED <<runningAction, stop_action, stop_action_group, __end, __start,
                   act, api, result, trace, sent, slept, outcome, sigAct, sigGrp,
                   failed, family>>
    /\ UNCHANGED rcvars
    /\ UNCHANGED owed

\* runAction('back' / 'back_fast') right after back_start.
GB113(t) ==
    /\ grp[t].pc = "B113"
    /\ ~InAct(t)
    /\ GrpCall(t, grp[t].actName, "B114")
    /\ UNCHANGED <<globals, api, result, trace, sigAct, sigGrp, failed, family>>
    /\ UNCHANGED rcvars
    /\ UNCHANGED owed

\* current_status = 'back' after that cycle.
GB114(t) ==
    /\ grp[t].pc = "B114"
    /\ ~InAct(t)
    /\ current_status' = "back"
    /\ grp' = [grp EXCEPT ![t].pc = "top"]
    /\ UNCHANGED <<runningAction, stop_action, stop_action_group, __end, __start,
                   act, api, result, trace, sent, slept, outcome, sigAct, sigGrp,
                   failed, family>>
    /\ UNCHANGED rcvars
    /\ UNCHANGED owed

\* break after the closing end transition of an exhausted gait.
GBreak(t) ==
    /\ grp[t].pc = "break"
    /\ ~InAct(t)
    /\ GrpBreak(t, "100")
    /\ UNCHANGED <<globals, act, api, trace, sent, slept, outcome, sigAct,
                   sigGrp, failed, family>>
    /\ UNCHANGED rcvars
    /\ UNCHANGED owed

\* Thread t enters runActionGroup(name, times, stand, lock).
GrpStart(t, name, times, stand, lock) ==
    /\ grp' = [grp EXCEPT ![t] =
                 [pc |-> "top", actName |-> name, times |-> times, temp |-> times,
                  with_stand |-> stand, lock_servos |-> lock,
                  from_idle |-> (__start /\ ~__end),
                  start0 |-> __start,
                  end0 |-> __end,
                  fam0 |-> family,
                  stop0 |-> stop_action_group,
                  iters |-> 0, left |-> "none",
                  fresh |-> FALSE, seen_at |-> -1, seen_fresh |-> FALSE]]
    /\ api' = [api EXCEPT ![t] = "runActionGroup"]
    /\ result' = [result EXCEPT ![t] = "pending"]
    /\ sigAct' = [sigAct EXCEPT ![t] = stop_action]
    /\ sigGrp' = [sigGrp EXCEPT ![t] = IF stop_action_group THEN "early" ELSE "none"]

\* A caller invokes runActionGroup(actName, times, with_stand, lock_servos).
CallRunActionGroup(t) ==
    /\ result[t] = "none"
    /\ \E name \in ActNames, times \in 0..MaxTimes, stand \in BOOLEAN,
          lock \in LockChoices :
          GrpStart(t, name, times, stand, lock)
    /\ UNCHANGED <<globals, act, trace, sent, slept, outcome, failed, family>>
    /\ UNCHANGED rcvars
    /\ UNCHANGED owed

\* RobotController.run_action: success unless runActionGroup raised.
run_action(r) == IF r = "raised" THEN [success |-> FALSE] ELSE [success |-> TRUE]

\* ---------------------------------------------------------- RobotController
\* The thread that calls the RobotController methods, and the thread that
\* run_action_async starts.
MainThread == "t1"
ActionThread == "t2"

\* The calls made of run_action_async, as (action_name, times, with_stand): a
\* gesture once or until stopped, a walk forward that ends standing, a walk
\* backward.
RCCalls == {<<"wave", 0, FALSE>>, <<"wave", 1, FALSE>>,
            <<"go_forward", 1, TRUE>>, <<"back", 1, FALSE>>}

\* self._action_thread is not None and self._action_thread.is_alive()
ThreadAlive == _action_thread # None /\ Busy(_action_thread)

\* run_action(action_name, times, with_stand), and the wrappers that return
\* run_action(...): runActionGroup runs in the calling thread. The main thread
\* asks for a gesture, once: wave(times=1).
run_action_call ==
    /\ rc.op = "none"
    /\ result[MainThread] = "none"
    /\ GrpStart(MainThread, "wave", 1, FALSE, NoLock)
    /\ rc' = [op |-> "run_action", pc |-> "loop", reply |-> "none", head |-> 0, played |-> {}]
    /\ UNCHANGED <<globals, act, trace, sent, slept, outcome, failed, family, owed,
                   _action_thread>>

\* Faulty variant of run_action_async: the thread is started without looking
\* at the one started before.
run_action_async_unchecked ==
    /\ rc.op = "none"
    /\ \E c \in RCCalls :
          GrpStart(ActionThread, c[1], c[2], c[3], NoLock)
    /\ _action_thread' = ActionThread
    /\ rc' = [op |-> "run_action_async", pc |-> "done",
              reply |-> "success", head |-> 0, played |-> {}]
    /\ UNCHANGED <<globals, act, trace, sent, slept, outcome, failed, family, owed>>

\* run_action_async(action_name, times, with_stand): refused while the thread
\* started earlier is alive, else a new daemon thread runs runActionGroup.
run_action_async ==
    /\ rc.op = "none"
    /\ IF ThreadAlive
         THEN /\ rc' = [op |-> "run_action_async", pc |-> "done",
                        reply |-> "Another action is already running", head |-> 0,
                        played |-> {}]
              /\ UNCHANGED <<grp, api, result, sigAct, sigGrp, _action_thread>>
         ELSE /\ result[ActionThread] = "none"
              /\ \E c \in RCCalls :
                    GrpStart(ActionThread, c[1], c[2], c[3], NoLock)
              /\ _action_thread' = ActionThread
              /\ rc' = [op |-> "run_action_async", pc |-> "done",
                        reply |-> "success", head |-> 0, played |-> {}]
    /\ UNCHANGED <<globals, act, trace, sent, slept, outcome, failed, family, owed>>

\* shutdown: self.stop_action(), which is AGC.stopActionGroup(); time.sleep(0.5)
shutdown_stop ==
    /\ rc.op = "none"
    /\ result[MainThread] = "none"
    /\ GroupStopSet
    /\ rc' = [op |-> "shutdown", pc |-> "head", reply |-> "none", head |-> 0, played |-> {}]
    /\ UNCHANGED <<runningAction, stop_action, gait, act, api, result, trace, sent,
                   slept, outcome, sigAct, failed, family, owed, _action_thread>>

\* shutdown: self.center_head(), two set_pwm_servo_pulse calls; time.sleep(0.5)
shutdown_head ==
    /\ rc.op = "shutdown"
    /\ rc.pc = "head"
    /\ rc' = [rc EXCEPT !.pc = "stand", !.head = 2]
    /\ UNCHANGED <<globals, grp, act, api, result, trace, sent, slept, outcome,
                   sigAct, sigGrp, failed, family, owed, _action_thread>>

\* shutdown: self.stand(), which is run_action('stand_slow', times=1)
shutdown_stand ==
    /\ rc.op = "shutdown"
    /\ rc.pc = "stand"
    /\ GrpStart(MainThread, "stand_slow", 1, FALSE, NoLock)
    /\ rc' = [rc EXCEPT !.pc = "loop"]
    /\ UNCHANGED <<globals, act, trace, sent, slept, outcome, failed, family, owed,
                   _action_thread>>

\* runActionGroup has returned to run_action, which returns success; so does
\* shutdown after stand().
rc_return ==
    /\ rc.pc = "loop"
    /\ result[MainThread] = None
    /\ rc' = [rc EXCEPT !.pc = "done", !.reply = "success",
                        !.played = IF outcome[MainThread] = "Completed"
                                      /\ Len(sent[MainThread]) = MaxFrames * NServos
                                     THEN {act[MainThread].actNum} ELSE {}]
    /\ Dropped(MainThread)
    /\ UNCHANGED <<globals, failed, family, owed, _action_thread>>

\* The caller has the method's reply and is ready for its next call.
rc_next ==
    /\ rc.pc = "done"
    /\ rc' = NoRc
    /\ UNCHANGED <<globals, grp, act, api, result, trace, sent, slept, outcome,
                   sigAct, sigGrp, failed, family, owed, _action_thread>>

\* ------------------------------------------------------------ specifications
\* One worker thread calls the API; the stop flags are set from outside.
Next ==
    \/ stopAction
    \/ stopActionGroup
    \/ CallRunAction("t1")
    \/ CallRunActionGroup("t1")
    \/ Returned("t1")
    \/ A142("t1")
    \/ A144("t1")
    \/ A149("t1")
    \/ A155("t1")
    \/ A161("t1")
    \/ A164("t1")
    \/ GTop("t1")
    \/ GA72("t1")
    \/ GA79("t1")
    \/ GA87("t1")
    \/ GB93("t1")
    \/ GB107("t1")
    \/ GB113("t1")
    \/ GB114("t1")
    \/ GBreak("t1")

Spec == Init /\ [][Next]_vars

\* The steps of the thread that is inside runAction or runActionGroup.
Worker(t) ==
    \/ A142(t) \/ A144(t) \/ A149(t) \/ A155(t) \/ A161(t) \/ A164(t)
    \/ GTop(t) \/ GA72(t) \/ GA79(t) \/ GA87(t) \/ GB93(t) \/ GB107(t)
    \/ GB113(t) \/ GB114(t) \/ GBreak(t)

\* The same system, the calling thread being scheduled again and again: every
\* statement of the loops returns (a frame's sleep ends), so a call that can
\* take its next step takes it.
SpecLive == Init /\ [][Next]_vars /\ WF_vars(Worker("t1"))

\* The same, with sequences that raise while they are streamed.
NextFail ==
    \/ Next
    \/ Raise("t1")

SpecFail == Init /\ [][NextFail]_vars

\* The calls with a repetition count: a walk forward, a walk backward and a
\* gesture, times = N >= 1, ending standing or not.
TimedNames == {"go_forward", "back", "wave"}

\* A caller invokes runActionGroup(actName, times=N, with_stand), N >= 1.
CallTimed(t) ==
    /\ result[t] = "none"
    /\ \E name \in TimedNames, times \in 1..MaxTimes, stand \in BOOLEAN :
          GrpStart(t, name, times, stand, NoLock)
    /\ UNCHANGED <<globals, act, trace, sent, slept, outcome, failed, family>>
    /\ UNCHANGED rcvars
    /\ UNCHANGED owed

\* One thread makes such calls; stop signals come at any moment and sequences
\* may raise while they are streamed.
NextTimed ==
    \/ stopAction
    \/ stopActionGroup
    \/ CallTimed("t1")
    \/ Returned("t1")
    \/ Raise("t1")
    \/ A142("t1")
    \/ A144("t1")
    \/ A149("t1")
    \/ A155("t1")
    \/ A161("t1")
    \/ A164("t1")
    \/ GTop("t1")
    \/ GA72("t1")
    \/ GA79("t1")
    \/ GA87("t1")
    \/ GB93("t1")
    \/ GB107("t1")
    \/ GB113("t1")
    \/ GB114("t1")
    \/ GBreak("t1")

\* The calling thread is scheduled again and again: a statement either returns
\* or raises, so a call that can take its next step takes it.
SpecTimed == Init /\ [][NextTimed]_vars /\ WF_vars(Worker("t1"))

\* Two threads call runAction directly.
NextConc ==
    \E t \in Threads :
        \/ CallRunAction(t)
        \/ Returned(t)
        \/ A142(t)
        \/ A144(t)
        \/ A149(t)
        \/ A155(t)
        \/ A161(t)
        \/ A164(t)

SpecConc == Init /\ [][NextConc]_vars

\* One thread plays a gesture with runAction while another calls runActionGroup.
NextBusy ==
    \/ CallStream("t1")
    \/ CallRunActionGroup("t2")
    \/ \E t \in Threads :
          \/ Returned(t)
          \/ A142(t)
          \/ A144(t)
          \/ A149(t)
          \/ A155(t)
          \/ A161(t)
          \/ A164(t)
    \/ GTop("t2")
    \/ GA72("t2")
    \/ GA79("t2")
    \/ GA87("t2")
    \/ GB93("t2")
    \/ GB107("t2")
    \/ GB113("t2")
    \/ GB114("t2")
    \/ GBreak("t2")

SpecBusy == Init /\ [][NextBusy]_vars

\* The main thread calls RobotController methods; run_action_async starts the
\* action thread.
NextRC ==
    \/ run_action_call
    \/ run_action_async
    \/ shutdown_stop
    \/ shutdown_head
    \/ shutdown_stand
    \/ rc_return
    \/ rc_next
    \/ Returned(ActionThread)
    \/ \E t \in Threads :
          \/ A142(t)
          \/ A144(t)
          \/ A149(t)
          \/ A155(t)
          \/ A161(t)
          \/ A164(t)
          \/ GTop(t)
          \/ GA72(t)
          \/ GA79(t)
          \/ GA87(t)
          \/ GB93(t)
          \/ GB107(t)
          \/ GB113(t)
          \/ GB114(t)
          \/ GBreak(t)

SpecRC == Init /\ [][NextRC]_vars

\* =================================================================== claims
Rep(x, n) == [i \in 1..n |-> x]
Count(seq, S) == Cardinality({i \in 1..Len(seq) : seq[i] \in S})

\* A runActionGroup call of t has returned and its record is still there.
EndedGrp(t) == api[t] = "runActionGroup" /\ result[t] = None
\* A direct runAction call of t has returned.
EndedAct(t) == api[t] = "runAction" /\ result[t] = None
\* No stop flag was pending at the call or set during it.
Quiet(t) == ~sigAct[t] /\ sigGrp[t] = "none"

\* C1: from Idle and with no stop signal, runActionGroup('go_forward', N,
\* with_stand=True), N >= 1, plays go_forward_start, then N times go_forward,
\* then go_forward_end, and nothing else.
C1_StartNCyclesEnd ==
    \A t \in Threads :
        (/\ EndedGrp(t)
         /\ grp[t].actName = "go_forward"
         /\ grp[t].with_stand
         /\ grp[t].temp >= 1
         /\ grp[t].from_idle
         /\ Quiet(t))
        => trace[t] = <<"go_forward_start">> \o Rep("go_forward", grp[t].temp)
                        \o <<"go_forward_end">>

\* C2: when a gait call with with_stand returns through exhaustion of its
\* repetitions, a start transition is owed and no end transition is pending.
C2_IdleAfterStand ==
    \A t \in Threads :
        (/\ EndedGrp(t)
         /\ grp[t].actName \in Locomotion
         /\ grp[t].with_stand
         /\ grp[t].left = "100")
        => (__start = TRUE /\ __end = FALSE)

\* The end transition of the family of a gait is played exactly once by the
\* call and is the last sequence the call plays.
OneEndLast(t) ==
    /\ Count(trace[t], EndNames) = 1
    /\ Len(trace[t]) >= 1
    /\ trace[t][Len(trace[t])] = StandEnd(grp[t].actName)

\* C3 as stated: a group stop signalled at any point after the start
\* transition of the running gait call was played (stopAction unused) makes the
\* call play exactly one end transition of the family, as its last sequence.
C3_StopAnyTimeEndsStable ==
    \A t \in Threads :
        (EndedGrp(t) /\ sigGrp[t] = "late" /\ ~sigAct[t]) => OneEndLast(t)

\* C3 amended: the same holds when the call observes the signal at the top of
\* an iteration (it leaves by the stop branch) or was called with with_stand;
\* a signal set after the last test of a call without with_stand is not
\* observed: no end transition is played and the signal stays set.
C3_ObservedStopEndsStable ==
    \A t \in Threads :
        (EndedGrp(t) /\ sigGrp[t] = "late" /\ ~sigAct[t])
        => IF grp[t].left = "84" \/ grp[t].with_stand
             THEN OneEndLast(t)
             ELSE /\ Count(trace[t], EndNames) = 0
                  /\ stop_action_group = TRUE
                  /\ __end = TRUE

\* A gait call left by the stop branch after a group stop signalled mid-gait.
C3_Witness ==
    \E t \in Threads :
        /\ EndedGrp(t)
        /\ sigGrp[t] = "late"
        /\ ~sigAct[t]
        /\ grp[t].left = "84"
        /\ grp[t].actName = "back"
        /\ trace[t] = <<"back_start", "back", "back", "back_end">>

\* A runAction is between runningAction = True and runningAction = False.
Streaming(t) == act[t].pc \in {"a149", "a155", "a161", "a164"}

\* C4: at most one runAction invocation is streaming at any moment, for every
\* interleaving of calls from several threads.
C4_AtMostOneStreaming == Cardinality({t \in Threads : Streaming(t)}) <= 1

\* C5: runningAction is false whenever no runAction call is in progress: before
\* the first call and after every call ends, however it ended.
C5_ReleasedAfterEveryCall == (\A t \in Threads : ~InAct(t)) => runningAction = FALSE

\* The frame and the servo of the i-th command of an uninterrupted stream.
FrameOf(i) == ((i - 1) \div NServos) + 1
ServoOf(i) == ((i - 1) % NServos) + 1
\* The servo ids a lock_servos argument names, and the position it gives one.
OverrideIds(lock) == {id \in 1..NServos : \E p \in lock : p[1] = ToString(id)}
OverrideOf(lock, id) == (CHOOSE p \in lock : p[1] = ToString(id))[2]

\* Every frame in file order, every servo 1..k in increasing order, one command
\* each, with the frame's duration and, for a servo that is not overridden, the
\* frame's position.
DeliveredInOrder(t) ==
    /\ Len(sent[t]) = MaxFrames * NServos
    /\ \A i \in 1..Len(sent[t]) :
          LET row == Rows(act[t].actNum)[FrameOf(i)]
          IN  /\ sent[t][i].id = ServoOf(i)
              /\ sent[t][i].dur = row[2]
              /\ ServoOf(i) \notin OverrideIds(act[t].lock_servos)
                    => sent[t][i].pos = row[2 + ServoOf(i)]

\* C6: after a sequence has failed while streaming, a later runAction call for
\* an existing action group still streams all of its frames.
C6_StreamsAfterFailure ==
    \A t \in Threads :
        (failed /\ EndedAct(t) /\ act[t].actNum \in Files /\ ~sigAct[t])
        => (outcome[t] = "Completed" /\ DeliveredInOrder(t))

\* The caller is given an error: runAction returns something other than None,
\* RobotController.run_action a dict with success False.
ErrorOutcome(t) ==
    IF api[t] = "runAction" THEN result[t] # None
    ELSE run_action(result[t]).success = FALSE

\* The call of t has returned, and the last action group it asked runAction
\* for has no file.
MissingCall(t) ==
    /\ result[t] \notin {"none", "pending"}
    /\ act[t].actNum \notin Files \cup {None}

\* C7: a call naming a missing action group returns an error outcome, raises
\* nothing, sends no servo command for it and leaves runningAction false.
C7_MissingIsError ==
    \A t \in Threads :
        MissingCall(t)
        => /\ ErrorOutcome(t)
           /\ result[t] # "raised"
           /\ sent[t] = <<>>
           /\ runningAction = FALSE

\* A runAction of t has returned after entering its streaming loop.
Streamed(t) == ~InAct(t) /\ outcome[t] \in {"Completed", "Cancelled"}

\* C8: with no stopAction signalled and no other playback active, a runAction
\* call sends one command per frame and servo, frames in file order, servos in
\* increasing order, none skipped, repeated, merged or reordered.
C8_EveryFrameOnceInOrder ==
    \A t \in Threads :
        (Streamed(t) /\ ~sigAct[t])
        => (outcome[t] = "Completed" /\ DeliveredInOrder(t))

C8_Witness ==
    \E t \in Threads :
        /\ Streamed(t)
        /\ ~sigAct[t]
        /\ act[t].actNum = "wave"
        /\ Len(sent[t]) = MaxFrames * NServos
        /\ sent[t][Len(sent[t])].id = NServos
        /\ sent[t][Len(sent[t])].dur = 100 * MaxFrames

\* C9: every command for a servo named in lock_servos carries the override
\* position and its frame's duration; every other command carries the authored
\* position.
C9_OverrideReplacesPosition ==
    \A t \in Threads :
        \A i \in 1..Len(sent[t]) :
            LET c == sent[t][i]
                row == Rows(act[t].actNum)[FrameOf(i)]
            IN  /\ c.dur = row[2]
                /\ c.pos = IF c.id \in OverrideIds(act[t].lock_servos)
                             THEN OverrideOf(act[t].lock_servos, c.id)
                             ELSE row[2 + c.id]

C9_Witness ==
    \E t \in Threads :
        /\ Streamed(t)
        /\ outcome[t] = "Completed"
        /\ act[t].lock_servos = {<<"2", 900>>}
        /\ \E i, j \in 1..Len(sent[t]) :
              /\ sent[t][i].id = 2 /\ sent[t][i].pos = 900
              /\ sent[t][i].dur = 100 * MaxFrames
              /\ sent[t][j].id = 1 /\ sent[t][j].pos = 10 * MaxFrames + 1

RECURSIVE FirstFrames(_, _)
FirstFrames(t, k) ==
    IF k = 0 THEN <<>>
    ELSE FirstFrames(t, k - 1)
            \o [s \in 1..NServos |->
                  LET c == sent[t][(k - 1) * NServos + s]
                  IN  [id |-> s, pos |-> c.pos, dur |-> Rows(act[t].actNum)[k][2]]]

NotTruncated(t) ==
    (/\ api[t] = "runActionGroup"
     /\ Streamed(t)
     /\ sigGrp[t] # "none"
     /\ act[t].cut = -1)
    => (outcome[t] = "Completed" /\ DeliveredInOrder(t))

\* Once the call has read the flag as true it plays at most one more sequence,
\* an end transition, and never the requested action.
OnlyAnEndAfterSeen(t) ==
    grp[t].seen_at >= 0
    => /\ Len(trace[t]) <= grp[t].seen_at + 1
       /\ \A i \in (grp[t].seen_at + 1)..Len(trace[t]) : trace[t][i] \in EndNames

\* C12 as stated: stopActionGroup truncates no sequence, is observed only in an
\* iteration later than the one whose sequence was streaming when it was set,
\* and once observed is followed by at most one end transition.
C12_SeenOnlyAtNextTop ==
    \A t \in Threads :
        /\ NotTruncated(t)
        /\ OnlyAnEndAfterSeen(t)
        /\ ~grp[t].seen_fresh

\* C12 amended: the signal is also observed by the test that follows the end
\* transition of the stop branch, in the iteration in which it was set; the
\* call then leaves at once, the end transition being the last sequence played.
C12_SeenAtNextTest ==
    \A t \in Threads :
        /\ NotTruncated(t)
        /\ OnlyAnEndAfterSeen(t)
        /\ grp[t].seen_fresh
             => /\ grp[t].left = "84"
                /\ grp[t].actName \notin Locomotion
                /\ Len(trace[t]) = grp[t].seen_at
                /\ grp[t].seen_at >= 1
                /\ trace[t][grp[t].seen_at] \in EndNames

\* A gesture requested with an end transition pending; the group stop arrives
\* while that end transition streams: it is delivered in full, the stop is seen
\* in the same iteration and the gesture is never played.
C12_Witness ==
    \E t \in Threads :
        /\ EndedGrp(t)
        /\ grp[t].actName = "wave"
        /\ grp[t].temp >= 1
        /\ grp[t].seen_fresh
        /\ trace[t] = <<"go_forward_end">>
        /\ outcome[t] = "Completed"
        /\ DeliveredInOrder(t)

\* C13: a runActionGroup call with times=0 never decrements its counter and
\* repeats the requested action; it returns only by the stop branch, after a
\* stopActionGroup signal, having played at most one end transition after
\* reading the signal; and once the signal is set during the call, the call
\* returns.
C13_ForeverUntilGroupStop ==
    /\ [](\A t \in Threads :
            (api[t] = "runActionGroup" /\ grp[t].temp = 0)
            => /\ grp[t].times = 0
               /\ sigGrp[t] = "none"
                    => /\ Busy(t)
                       /\ \A i \in 2..Len(trace[t]) : trace[t][i] = grp[t].actName
               /\ result[t] = None
                    => /\ grp[t].left = "84"
                       /\ grp[t].seen_at >= 0
                       /\ Len(trace[t]) <= grp[t].seen_at + 1)
    /\ \A t \in Threads :
          (api[t] = "runActionGroup" /\ Busy(t) /\ grp[t].temp = 0 /\ stop_action_group)
          ~> (result[t] = None)

\* A times=0 call that repeated its gait as far as the model follows it and was
\* then stopped: the end transition is the one sequence played after the stop.
C13_Witness ==
    \E t \in Threads :
        /\ EndedGrp(t)
        /\ grp[t].temp = 0
        /\ grp[t].actName = "back"
        /\ sigGrp[t] = "late"
        /\ grp[t].left = "84"
        /\ Len(trace[t]) = MaxPlays + 1
        /\ grp[t].seen_at = MaxPlays
        /\ trace[t][MaxPlays] = "back"
        /\ trace[t][MaxPlays + 1] = "back_end"

\* C14: a discrete action that has a file, requested with times=N >= 1, no stop
\* signal and no end transition pending, is played exactly N times, nothing
\* else is played, and the call returns by the exhausted exit of the stop
\* branch.
C14_DiscretePlayedNTimes ==
    \A t \in Threads :
        (/\ api[t] = "runActionGroup"
         /\ grp[t].actName \in Files \ Locomotion
         /\ grp[t].temp >= 1
         /\ ~grp[t].end0
         /\ Quiet(t))
        => /\ Len(trace[t]) <= grp[t].temp
           /\ \A i \in 1..Len(trace[t]) : trace[t][i] = grp[t].actName
           /\ result[t] = None
                => /\ trace[t] = Rep(grp[t].actName, grp[t].temp)
                   /\ grp[t].left = "90"
                   /\ outcome[t] = "Completed"

C14_Witness ==
    \E t \in Threads :
        /\ EndedGrp(t)
        /\ grp[t].actName = "wave"
        /\ grp[t].temp = MaxTimes
        /\ ~grp[t].end0
        /\ Quiet(t)
        /\ trace[t] = Rep("wave", MaxTimes)
        /\ grp[t].left = "90"

\* C15: no exception raised by a sequence leaves runActionGroup: the call is
\* never ended by it, control is back at the top of the loop (the statements
\* that follow the failed runAction in its iteration are skipped), and the
\* counter is one less for every pass, failed or not, so that an unstopped call
\* ends after its N+1 passes (one more when the closing end transition raised).
C15_ExceptionsStayInLoop ==
    \A t \in Threads :
        api[t] = "runActionGroup"
        => /\ result[t] # "raised"
           /\ grp[t].temp # 0 => grp[t].times = grp[t].temp - grp[t].iters
           /\ (outcome[t] = "Raised" /\ Busy(t))
                => grp[t].pc \in {"top", "A72", "A79", "A87", "B93"}
           /\ (result[t] = None /\ grp[t].temp # 0 /\ sigGrp[t] = "none")
                => \/ grp[t].iters = grp[t].temp + 1
                   \/ /\ grp[t].iters = grp[t].temp + 2
                      /\ grp[t].with_stand
                      /\ grp[t].actName \in Locomotion

\* The first of two plays of a gesture raised: the loop went on, the second
\* pass found runningAction still set, and the call returned after three passes.
C15_Witness ==
    \E t \in Threads :
        /\ EndedGrp(t)
        /\ grp[t].actName = "wave"
        /\ grp[t].temp = 2
        /\ sigGrp[t] = "none"
        /\ failed
        /\ trace[t] = <<"wave">>
        /\ outcome[t] = "Busy"
        /\ grp[t].iters = 3
        /\ grp[t].left = "90"

\* The end transition of a family.
EndOfFamily(f) == IF f = "forward" THEN "go_forward_end" ELSE "back_end"

\* C16: a discrete action with a file, requested with times=N >= 1 and no stop
\* while an end transition is pending, is preceded by the end transition of the
\* family whose start transition was played last, once and before its first
\* play, and __end is false from then on.
C16_PendingEndBeforeDiscrete ==
    \A t \in Threads :
        (/\ api[t] = "runActionGroup"
         /\ grp[t].actName \in Files \ Locomotion
         /\ grp[t].temp >= 1
         /\ grp[t].end0
         /\ Quiet(t))
        => /\ grp[t].fam0 \in {"forward", "backward"}
           /\ Len(trace[t]) >= 1
                => /\ trace[t][1] = EndOfFamily(grp[t].fam0)
                   /\ \A i \in 2..Len(trace[t]) : trace[t][i] = grp[t].actName
                   /\ __end = FALSE
           /\ result[t] = None
                => /\ trace[t] = <<EndOfFamily(grp[t].fam0)>>
                                   \o Rep(grp[t].actName, grp[t].temp)
                   /\ __end = FALSE

C16_Witness ==
    \E t \in Threads :
        /\ EndedGrp(t)
        /\ grp[t].actName = "wave"
        /\ grp[t].temp = 2
        /\ grp[t].end0
        /\ grp[t].fam0 = "backward"
        /\ Quiet(t)
        /\ trace[t] = <<"back_end", "wave", "wave">>
        /\ __end = FALSE

\* The start transition the claim names for each gait.
StartFor(name) ==
    CASE name \in {"go_forward", "go_forward_slow"} -> "go_forward_start"
      [] name = "go_forward_fast" -> "go_forward_start_fast"
      [] name \in {"back", "back_fast"} -> "back_start"

\* C17: a gait call that begins in Idle, times=N >= 1, no stop: the first
\* sequence it plays is the start transition of the gait, played once in the
\* call, with __start false and __end true from then on; after the first pass
\* a forward gait has played its start transition only, a backward gait its
\* start transition and one cycle; and a backward gait plays N cycles in all.
C17_StartOnceFromIdle ==
    \A t \in Threads :
        (/\ api[t] = "runActionGroup"
         /\ grp[t].actName \in Locomotion
         /\ grp[t].from_idle
         /\ grp[t].temp >= 1
         /\ Quiet(t))
        => /\ Len(trace[t]) >= 1
                => /\ trace[t][1] = StartFor(grp[t].actName)
                   /\ Count(trace[t], StartNames) = 1
                   /\ __start = FALSE
                   /\ __end = TRUE
           /\ (grp[t].iters = 1 /\ grp[t].pc = "top")
                => trace[t] = IF grp[t].actName \in BackwardGroup
                                THEN <<"back_start", grp[t].actName>>
                                ELSE <<StartFor(grp[t].actName)>>
           /\ (result[t] = None /\ grp[t].actName \in BackwardGroup)
                => trace[t] = <<"back_start">> \o Rep(grp[t].actName, grp[t].temp)
                                \o (IF grp[t].with_stand THEN <<"back_end">> ELSE <<>>)

C17_Witness ==
    \E t \in Threads :
        /\ EndedGrp(t)
        /\ grp[t].actName = "back_fast"
        /\ grp[t].from_idle
        /\ grp[t].temp = 2
        /\ ~grp[t].with_stand
        /\ Quiet(t)
        /\ trace[t] = <<"back_start", "back_fast", "back_fast">>
        /\ __start = FALSE
        /\ __end = TRUE
        /\ current_status = "back"

\* C18: a runActionGroup call plays at most one start transition; a gait call
\* that begins with the gait started (__start false) plays none, and with no
\* stop it plays the requested cycle N times and, with with_stand, the end
\* transition of the gait after them.
C18_NoStartWhileStarted ==
    \A t \in Threads :
        api[t] = "runActionGroup"
        => /\ Count(trace[t], StartNames) <= 1
           /\ (grp[t].actName \in Locomotion /\ ~grp[t].start0)
                => /\ Count(trace[t], StartNames) = 0
                   /\ (Quiet(t) /\ grp[t].temp >= 1)
                        => \A i \in 1..Len(trace[t]) :
                              trace[t][i] = IF i <= grp[t].temp THEN grp[t].actName
                                            ELSE StandEnd(grp[t].actName)
                   /\ (Quiet(t) /\ grp[t].temp >= 1 /\ result[t] = None)
                        => Len(trace[t]) = grp[t].temp + (IF grp[t].with_stand THEN 1 ELSE 0)

C18_Witness ==
    \E t \in Threads :
        /\ EndedGrp(t)
        /\ grp[t].actName = "go_forward"
        /\ ~grp[t].start0
        /\ grp[t].end0
        /\ grp[t].temp = 2
        /\ ~grp[t].with_stand
        /\ Quiet(t)
        /\ trace[t] = <<"go_forward", "go_forward">>

\* The value the gait branch gives current_status for a gait.
StatusFor(name) == IF name \in ForwardGroup THEN "go" ELSE "back"

\* C19: a runAction request that finds runningAction true sends nothing, sleeps
\* for nothing, raises nothing, and its step changes neither runningAction, nor
\* the stop flag, nor the frame or the commands of any other thread; every
\* sequence that streams is still delivered in full. A gait call from Idle
\* whose sequences were all skipped that way has nevertheless, after its first
\* pass, set __start false, __end true and current_status to its family.
C19_BusySkipKeepsBookkeeping ==
    /\ [](\A t \in Threads :
            /\ outcome[t] = "Busy"
                 => (sent[t] = <<>> /\ slept[t] = 0 /\ result[t] # "raised")
            /\ Streamed(t) => (outcome[t] = "Completed" /\ DeliveredInOrder(t))
            /\ (/\ api[t] = "runActionGroup"
                /\ grp[t].actName \in Locomotion
                /\ grp[t].from_idle
                /\ grp[t].temp >= 1
                /\ grp[t].iters >= 1
                /\ grp[t].pc \in {"top", "idle"}
                /\ trace[t] = <<>>)
                 => /\ __start = FALSE
                    /\ __end = TRUE
                    /\ current_status = StatusFor(grp[t].actName))
    /\ [][\A t \in Threads :
            (/\ act[t].pc = "a142"
             /\ act[t].actNum \in Files
             /\ runningAction = TRUE
             /\ act'[t] # act[t])
            => /\ outcome'[t] = "Busy"
               /\ runningAction' = TRUE
               /\ stop_action' = stop_action
               /\ \A u \in Threads \ {t} :
                     act'[u] = act[u] /\ sent'[u] = sent[u] /\ slept'[u] = slept[u]]_vars

\* While a gesture streams on one thread, a go_forward call from Idle on the
\* other had its start transition skipped and has recorded the gait as started.
C19_Witness ==
    /\ Streaming("t1")
    /\ api["t2"] = "runActionGroup"
    /\ grp["t2"].actName = "go_forward"
    /\ grp["t2"].from_idle
    /\ grp["t2"].iters = 1
    /\ grp["t2"].pc = "top"
    /\ trace["t2"] = <<>>
    /\ outcome["t2"] = "Busy"
    /\ sent["t2"] = <<>>
    /\ __start = FALSE
    /\ __end = TRUE
    /\ current_status = "go"

\* The sequences a call with times=N >= 1 plays when no stop flag is touched,
\* from its arguments and the gait flags it found.
PlaysOf(g) ==
    LET closing == IF g.with_stand
                     THEN <<EndOfFamily(IF g.actName \in ForwardGroup
                                          THEN "forward" ELSE "backward")>>
                     ELSE <<>>
    IN  IF g.actName \notin Locomotion
          THEN (IF g.end0 THEN <<EndOfFamily(g.fam0)>> ELSE <<>>)
                 \o (IF g.actName \in Files THEN Rep(g.actName, g.temp) ELSE <<>>)
        ELSE IF g.start0
          THEN <<StartFor(g.actName)>>
                 \o Rep(g.actName, IF g.actName \in BackwardGroup
                                     THEN g.temp ELSE g.temp - 1)
                 \o closing
        ELSE Rep(g.actName, g.temp) \o closing

\* C20: with no stopActionGroup, whatever stopAction does, a runActionGroup
\* call with times=0 does not return, a call with times=N >= 1 returns by
\* exhaustion after N+1 passes having begun exactly the sequences it begins
\* when no stop is signalled, and every sequence during which no stopAction
\* was pending or signalled is delivered in full.
C20_StopActionKeepsLoop ==
    \A t \in Threads :
        (api[t] = "runActionGroup" /\ sigGrp[t] = "none")
        => /\ grp[t].temp = 0 => Busy(t)
           /\ (grp[t].temp >= 1 /\ result[t] = None)
                => /\ grp[t].iters = grp[t].temp + 1
                   /\ grp[t].left \in {"90", "100"}
                   /\ trace[t] = PlaysOf(grp[t])
           /\ (Streamed(t) /\ act[t].cut = -1)
                => (outcome[t] = "Completed" /\ DeliveredInOrder(t))

\* A back call in which stopAction cut the start transition short: both cycles
\* were still played, the last one in full.
C20_Witness ==
    \E t \in Threads :
        /\ EndedGrp(t)
        /\ sigGrp[t] = "none"
        /\ sigAct[t]
        /\ stop_action = FALSE
        /\ grp[t].actName = "back"
        /\ grp[t].temp = 2
        /\ grp[t].from_idle
        /\ ~grp[t].with_stand
        /\ trace[t] = <<"back_start", "back", "back">>
        /\ grp[t].iters = 3
        /\ act[t].cut = -1
        /\ outcome[t] = "Completed"
        /\ DeliveredInOrder(t)
\* ---------------------------------------------------------------------------
\* C21. shutdown() stops any running action, then centers the head, then plays
\* stand: when shutdown returns with success, both head servos have been
\* centered and stand_slow has been streamed to its last frame, whether or not
\* an action was running.
C21_ShutdownStands ==
    (rc.op = "shutdown" /\ rc.pc = "done" /\ rc.reply = "success")
        => (rc.head = 2 /\ "stand_slow" \in rc.played)

\* ---------------------------------------------------------------------------
\* C22. run_action_async starts a background runActionGroup thread only if no
\* thread it started earlier is alive. While one is alive it replies
\* 'Another action is already running', starts nothing and leaves the running
\* action, the globals and _action_thread untouched; otherwise it starts the
\* thread on the requested action and replies success.
C22_Step == rc.op = "none" /\ rc'.op = "run_action_async"

C22_AsyncOnlyWhenNoneAlive ==
    [][C22_Step =>
         IF ThreadAlive
           THEN /\ rc'.reply = "Another action is already running"
                /\ UNCHANGED <<globals, grp, act, api, result, trace, sent,
                               slept, outcome, _action_thread>>
           ELSE /\ rc'.reply = "success"
                /\ _action_thread' = ActionThread
                /\ result'[ActionThread] = "pending"
                /\ api'[ActionThread] = "runActionGroup"
                /\ grp'[ActionThread].pc = "top"
                /\ <<grp'[ActionThread].actName, grp'[ActionThread].temp,
                      grp'[ActionThread].with_stand>> \in RCCalls
                /\ grp'[MainThread] = grp[MainThread]
                /\ UNCHANGED <<globals, act, trace, sent, slept, outcome>>]_vars

\* The call was refused while the background thread streams a sequence, part of
\* it already sent.
C22_Witness ==
    /\ rc.op = "run_action_async"
    /\ rc.reply = "Another action is already running"
    /\ ThreadAlive
    /\ InAct(ActionThread)
    /\ Len(sent[ActionThread]) > 0

\* ---------------------------------------------------------------------------
\* The durations of the first k frames of an action group, added up.
RECURSIVE SumDurations(_, _)
SumDurations(name, k) ==
    IF k = 0 THEN 0 ELSE SumDurations(name, k - 1) + Rows(name)[k][2]

\* C23. In a runAction stream every target of a frame is sent before the frame's
\* pause, the pause lasts that frame's duration_ms, and no target of the next
\* frame is sent before the pause has ended: when frame n is fetched n-1 frames
\* are sent and paused for, when its pause is due n frames are sent and n-1
\* paused for. A stream that is not cancelled pauses for the sum of all its
\* frames' durations.
C23_FrameThenPause ==
    \A t \in Threads :
        LET name == act[t].actNum
            n == act[t].n
        IN  /\ act[t].pc = "a155" =>
                  /\ Len(sent[t]) = (n - 1) * NServos
                  /\ slept[t] = SumDurations(name, n - 1)
            /\ act[t].pc = "a161" =>
                  /\ Len(sent[t]) = n * NServos
                  /\ \A s \in 1..NServos :
                        /\ sent[t][(n - 1) * NServos + s].id = s
                        /\ sent[t][(n - 1) * NServos + s].dur = Rows(name)[n][2]
                  /\ slept[t] = SumDurations(name, n - 1)
            /\ (act[t].pc = "a149" /\ outcome[t] # "Cancelled") =>
                  /\ Len(sent[t]) = n * NServos
                  /\ slept[t] = SumDurations(name, n)
            /\ (act[t].pc \in {"a164", "none"} /\ outcome[t] = "Completed") =>
                  /\ Len(sent[t]) = MaxFrames * NServos
                  /\ slept[t] = SumDurations(name, MaxFrames)

\* The targets of the second frame are sent and its pause is due; the first
\* frame's pause is over.
C23_Witness ==
    \E t \in Threads :
        /\ act[t].pc = "a161"
        /\ act[t].n = 2
        /\ Len(sent[t]) = 2 * NServos
        /\ slept[t] = 100

\* ---------------------------------------------------------------------------
\* C24. An end transition is played only when it is owed: over any sequence of
\* runActionGroup calls and stop signals, no end transition is played before
\* the first start transition, and between two plays of an end transition
\* there is a play of a start transition. Every step in which a loop calls
\* runAction for an end transition finds owed true (with one calling thread
\* and no exception every sequence called for is played).
C24_EndOnlyWhenOwed ==
    [][\A t \in Threads :
          (/\ api[t] = "runActionGroup"
           /\ act[t].pc = "none"
           /\ act'[t].pc = "a142"
           /\ act'[t].actNum \in EndNames) => owed]_vars

\* ---------------------------------------------------------------------------
\* The gait family of a mid-gait cycle or of an end transition.
FamilyOf(name) ==
    IF name \in ForwardGroup \cup {"go_forward_end"} THEN "forward" ELSE "backward"

\* C25. Over any sequence of runActionGroup calls, every mid-gait cycle and
\* every end transition that is played belongs to the family of the most
\* recently played start transition: whenever a loop's runAction begins to
\* stream one, its family is the family of the last start transition.
C25_CyclesOfLastStart ==
    [][\A t \in Threads :
          (/\ api[t] = "runActionGroup"
           /\ act[t].pc = "a144"
           /\ act'[t].pc = "a149"
           /\ act[t].actNum \in Locomotion \cup EndNames)
              => FamilyOf(act[t].actNum) = family]_vars

\* ---------------------------------------------------------------------------
\* A runActionGroup loop is running.
LoopRuns == \E t \in Threads : api[t] = "runActionGroup" /\ Busy(t)

C27_SkipKeepsRunningAction ==
    [][\A t \in Threads :
          (act[t].pc = "a142" /\ act'[t].pc = "none")
              => runningAction' = runningAction]_vars

\* ---------------------------------------------------------------------------
\* C28. Through RobotController at most one runActionGroup loop executes at a
\* time: run_action and the wrappers built on it do not run runActionGroup
\* while a thread started by run_action_async is alive.
C28_OneLoopAtATime ==
    Cardinality({t \in Threads : api[t] = "runActionGroup" /\ Busy(t)}) <= 1

\* ---------------------------------------------------------------------------
\* C29. Whenever runActionGroup returns through an observed group stop (line
\* 84) or through discrete exhaustion (line 90), the flags are reset: the step
\* that returns leaves __start true, __end false and stop_action_group false,
\* and __start and __end stay so until the next call.
C29_FlagsResetOnStopAndExhaustion ==
    /\ [](\A t \in Threads :
            (api[t] = "runActionGroup" /\ result[t] = None
                /\ grp[t].left \in {"84", "90"}) => (__start /\ ~__end))
    /\ [][\A t \in Threads :
            (api[t] = "runActionGroup" /\ Busy(t) /\ result'[t] = None
                /\ grp'[t].left \in {"84", "90"})
               => (__start' /\ ~__end' /\ ~stop_action_group')]_vars

\* A gesture asked for twice has been played twice and the call has returned
\* through line 90, a group stop having been signalled during its last play.
C29_Witness ==
    \E t \in Threads :
        /\ api[t] = "runActionGroup"
        /\ result[t] = None
        /\ grp[t].left = "90"
        /\ grp[t].end0
        /\ trace[t] = <<"go_forward_end", "wave", "wave">>
        /\ sigGrp[t] # "none"
        /\ __start /\ ~__end /\ ~stop_action_group

\* ---------------------------------------------------------------------------
\* C30. When a single thread runs runActionGroup and no sequence raises, exactly
\* one of __start and __end is true at the top of every loop iteration and
\* between calls: either a start transition is owed or an end transition is
\* pending, never both and never neither.
C30_StartXorEnd ==
    (\A t \in Threads :
        /\ grp[t].pc \in {"idle", "top"}
        /\ api[t] = "runActionGroup" => ~InAct(t)) => (__start # __end)

\* The top of the third iteration of a forward gait: the start transition and
\* one cycle are played, the end transition is pending.
C30_Witness ==
    \E t \in Threads :
        /\ grp[t].pc = "top"
        /\ ~InAct(t)
        /\ api[t] = "runActionGroup"
        /\ trace[t] = <<"go_forward_start", "go_forward">>
        /\ __end /\ ~__start

====
